---- MODULE Spec2Model ----
(***************************************************************************)
(* Earth Day dashboards: the day-matching and comparison-metric engine of  *)
(* the Westin, Canopy, Camden, race (4cgroup), CIE and CIV dashboards.     *)
(* One dashboard session is one behaviour: Init is the session after the   *)
(* series has been loaded, every step is one complete run of main(); the   *)
(* sessions of LoadSpec start before the first load and run load_data too. *)
(***************************************************************************)
EXTENDS Integers, Sequences, FiniteSets, TLC

VARIABLES
    app,           \* which dashboard this session runs
    data,          \* the loaded series (load_data's return value)
    today,         \* datetime.today() of the last run of main()
    period,        \* the selectbox value of the last run
    cur,           \* (current_start, current_end) / (period_start, period_end)
    cmp,           \* (compare_start, compare_end)
    matched,       \* matched_data / matched_dates, when computed
    kpis,          \* the KPI record of Westin, Canopy and Camden, when computed
    daily_change,  \* Camden's daily-average card value, when computed
    metrics,       \* the race dashboard's per-hotel metrics
    comparison,    \* calculate_q1_comparison's result in CIE / CIV
    outcome,       \* how the last run of main() ended
    divisions,     \* the divisions the last run evaluated, with their denominators
    notices,       \* the st.warning / st.info / st.error messages of the last run
    source,        \* the database / CSV file: whether it can be read, and its rows
    cache,         \* what st.cache_data holds for load_data, if anything
    reads,         \* runs of load_data's body since the cache was last cleared by hand
    served         \* what load_data returned to the last run of main()

vars == <<app, data, today, period, cur, cmp, matched, kpis, daily_change,
          metrics, comparison, outcome, divisions, notices,
          source, cache, reads, served>>

(***************************************************************************)
(* Bounds of the model.                                                    *)
(***************************************************************************)
\* largest number of rows of a single-hotel series
MaxRows == 3
\* instants per calendar day: tick 0 is midnight, later ticks are later in the day
TicksPerDay == 2
\* largest number of monthly rows of the CIE / CIV table
MaxMonths == 3

(***************************************************************************)
(* Calendar: proleptic Gregorian ordinals as datetime.toordinal() has them.*)
(***************************************************************************)
Years == 2021..2026

IsLeap(y) == (y % 4 = 0) /\ ((y % 100 # 0) \/ (y % 400 = 0))

DaysInMonth(y, m) ==
    IF m = 2 THEN (IF IsLeap(y) THEN 29 ELSE 28)
    ELSE IF m \in {4, 6, 9, 11} THEN 30 ELSE 31

RECURSIVE DaysBeforeMonth(_, _)
DaysBeforeMonth(y, m) ==
    IF m = 1 THEN 0 ELSE DaysBeforeMonth(y, m - 1) + DaysInMonth(y, m - 1)

DaysBeforeYear(y) ==
    365 * (y - 1) + ((y - 1) \div 4) - ((y - 1) \div 100) + ((y - 1) \div 400)

ToOrdinal(y, m, d) == DaysBeforeYear(y) + DaysBeforeMonth(y, m) + d

Ordinals == (DaysBeforeYear(2021) + 1)..DaysBeforeYear(2027)

\* the civil date of every ordinal of the modelled years, computed once
Civil ==
    [o \in Ordinals |->
        LET y == CHOOSE yy \in Years :
                    DaysBeforeYear(yy) < o /\ o <= DaysBeforeYear(yy + 1)
            m == CHOOSE mm \in 1..12 :
                    /\ DaysBeforeYear(y) + DaysBeforeMonth(y, mm) < o
                    /\ o <= DaysBeforeYear(y) + DaysBeforeMonth(y, mm)
                                + DaysInMonth(y, mm)
        IN  [year |-> y, month |-> m,
             day |-> o - DaysBeforeYear(y) - DaysBeforeMonth(y, m)]]

\* a datetime is a number of ticks; the ordinal of its calendar day
OrdOf(t) == t \div TicksPerDay
TimeOf(t) == t % TicksPerDay
YearOf(t) == Civil[OrdOf(t)].year
MonthOf(t) == Civil[OrdOf(t)].month
DayOf(t) == Civil[OrdOf(t)].day
\* Timestamp.dayofweek / datetime.weekday(): Monday is 0
DayOfWeek(t) == (OrdOf(t) + 6) % 7

\* datetime(y, m, d): midnight of that day
DateTime(y, m, d) == ToOrdinal(y, m, d) * TicksPerDay
\* t - timedelta(days=n)
MinusDays(t, n) == t - n * TicksPerDay
\* (b - a).days
DaysBetween(a, b) == (b - a) \div TicksPerDay

(***************************************************************************)
(* Numbers: the floats of the code as exact rationals n/d (d > 0, lowest   *)
(* terms) together with nan, +inf and -inf, which numpy division yields    *)
(* (with a warning, not an exception) when the denominator is 0.           *)
(***************************************************************************)
RECURSIVE Gcd(_, _)
Gcd(a, b) == IF b = 0 THEN a ELSE Gcd(b, a % b)

Abs(n) == IF n < 0 THEN -n ELSE n

Rat(n, d) ==
    LET g == Gcd(Abs(n), Abs(d))
        s == IF d < 0 THEN -1 ELSE 1
    IN  [k |-> "fin", n |-> (s * n) \div g, d |-> (s * d) \div g]

Num(n) == [k |-> "fin", n |-> n, d |-> 1]
NaN == [k |-> "nan", n |-> 0, d |-> 1]
PosInf == [k |-> "inf", n |-> 1, d |-> 1]
NegInf == [k |-> "inf", n |-> -1, d |-> 1]

IsFin(a) == a.k = "fin"
IsNaN(a) == a.k = "nan"
\* sign of a value that is not nan
Sign(a) == IF a.n > 0 THEN 1 ELSE IF a.n < 0 THEN -1 ELSE 0

\* a < b, a == b as IEEE comparisons: every comparison with nan is false
Lt(a, b) ==
    IF IsNaN(a) \/ IsNaN(b) THEN FALSE
    ELSE IF IsFin(a) /\ IsFin(b) THEN a.n * b.d < b.n * a.d
    ELSE IF IsFin(a) THEN b.n > 0
    ELSE IF IsFin(b) THEN a.n < 0
    ELSE a.n < b.n
Eq(a, b) == ~IsNaN(a) /\ ~IsNaN(b) /\ a = b
Le(a, b) == Lt(a, b) \/ Eq(a, b)
Gt(a, b) == Lt(b, a)
Ge(a, b) == Le(b, a)

Neg(a) == IF IsNaN(a) THEN NaN ELSE [a EXCEPT !.n = -a.n]

Add(a, b) ==
    IF IsNaN(a) \/ IsNaN(b) THEN NaN
    ELSE IF IsFin(a) /\ IsFin(b) THEN
        LET g == Gcd(a.d, b.d)
        IN  Rat(a.n * (b.d \div g) + b.n * (a.d \div g), (a.d \div g) * b.d)
    ELSE IF IsFin(a) THEN b
    ELSE IF IsFin(b) THEN a
    ELSE IF a.n = b.n THEN a ELSE NaN

Sub(a, b) == Add(a, Neg(b))

Mul(a, b) ==
    IF IsNaN(a) \/ IsNaN(b) THEN NaN
    ELSE IF IsFin(a) /\ IsFin(b) THEN
        \* reduced crosswise first, so that the products stay small
        LET g1 == Gcd(Abs(a.n), b.d)
            g2 == Gcd(Abs(b.n), a.d)
        IN  Rat((a.n \div g1) * (b.n \div g2), (a.d \div g2) * (b.d \div g1))
    ELSE IF Sign(a) * Sign(b) = 0 THEN NaN
    ELSE IF Sign(a) * Sign(b) > 0 THEN PosInf ELSE NegInf

\* numpy float division: x/0 is +-inf, 0/0 is nan, nothing is raised
Div(a, b) ==
    IF IsNaN(a) \/ IsNaN(b) THEN NaN
    ELSE IF IsFin(a) /\ IsFin(b) THEN
        IF b.n # 0 THEN Mul(a, Rat(b.d, b.n))
        ELSE IF a.n = 0 THEN NaN
        ELSE IF a.n > 0 THEN PosInf ELSE NegInf
    ELSE IF IsFin(b) THEN (IF Sign(a) * (IF b.n < 0 THEN -1 ELSE 1) > 0 THEN PosInf ELSE NegInf)
    ELSE IF IsFin(a) THEN Num(0)
    ELSE NaN

\* Python's max(a, b) and min(a, b): the first argument stays unless the
\* second compares greater (smaller), so a nan second argument is dropped
PyMax(a, b) == IF Gt(b, a) THEN b ELSE a
PyMin(a, b) == IF Lt(b, a) THEN b ELSE a
PyAbs(a) == IF IsNaN(a) THEN NaN ELSE [a EXCEPT !.n = Abs(a.n)]

\* int(x) of a finite float: truncation toward zero
PyInt(a) == IF a.n >= 0 THEN a.n \div a.d ELSE -((-a.n) \div a.d)

\* int(x / k) for a positive integer k, as int(int(x) / k): the same integer,
\* computed without the product of k and the denominator of x
PyIntOfQuotient(a, k) ==
    IF PyInt(a) >= 0 THEN PyInt(a) \div k ELSE -((-PyInt(a)) \div k)

(***************************************************************************)
(* Program constants.                                                      *)
(***************************************************************************)
mpan_to_hotel == <<"Westin", "Camden", "Canopy", "EH", "St Albans">>
Hotels == {mpan_to_hotel[i] : i \in DOMAIN mpan_to_hotel}

\* ELECTRICITY_FACTOR of each file: 0.20493, except 0.00020493 in Canopy and 4cgroup
ELECTRICITY_FACTOR(a) ==
    IF a \in {"canopy", "race"} THEN Rat(20493, 100000000) ELSE Rat(20493, 100000)

target_savings_percent == 10
co2_per_tree == 22
avg_guests(a) == IF a = "westin" THEN 202 ELSE 395

(***************************************************************************)
(* Data frames: a series is a sequence of rows ordered by Date.            *)
(***************************************************************************)
RECURSIVE SumUsage(_)
SumUsage(rows) ==
    IF rows = <<>> THEN 0 ELSE rows[1].Usage + SumUsage(Tail(rows))

\* Series.sum(): 0 for an empty selection
Total(rows) == Num(SumUsage(rows))
\* Series.mean(): nan for an empty selection
Mean(rows) == IF Len(rows) = 0 THEN NaN ELSE Rat(SumUsage(rows), Len(rows))

\* the same filter with the end of the range left out
BetweenOpenEnd(rows, start, end) ==
    SelectSeq(rows, LAMBDA r : r.Date >= start /\ r.Date < end)

\* data[(data['Date'] >= start) & (data['Date'] <= end)]
Between(rows, start, end) ==
    SelectSeq(rows, LAMBDA r : r.Date >= start /\ r.Date <= end)

\* set(frame[column]) of a key column, held as a sequence aligned with the rows
KeySet(row_keys) == {row_keys[i] : i \in DOMAIN row_keys}

\* frame[frame[column].isin(keys)]
KeepKeys(rows, row_keys, keys) ==
    LET kept == SelectSeq([i \in DOMAIN rows |-> i], LAMBDA i : row_keys[i] \in keys)
    IN  [j \in DOMAIN kept |-> rows[kept[j]]]

(***************************************************************************)
(* Westin: weekday / week-of-month matching.                               *)
(***************************************************************************)
week_of_month(t) == ((DayOf(t) - 1) \div 7) + 1

\* a key without the week of the month
month_weekday_key(r) ==
    ToString(MonthOf(r.Date)) \o "-" \o ToString(DayOfWeek(r.Date))

\* month.astype(str) + "-" + week_of_month.astype(str) + "-" + day_of_week.astype(str)
match_key(r) ==
    ToString(MonthOf(r.Date)) \o "-" \o ToString(week_of_month(r.Date))
        \o "-" \o ToString(DayOfWeek(r.Date))

\* the match quality as a fraction instead of a percentage
MatchingDayPairsFraction(current_data, current_keys, compare_data, compare_keys, total_expected_days) ==
    LET common_keys == KeySet(current_keys) \cap KeySet(compare_keys)
    IN  [current_data |-> KeepKeys(current_data, current_keys, common_keys),
         compare_data |-> KeepKeys(compare_data, compare_keys, common_keys),
         matched_day_count |-> Cardinality(common_keys),
         expected_day_count |-> total_expected_days,
         match_percentage |-> Div(Num(Cardinality(common_keys)), Num(total_expected_days))]

\* the part of get_matching_day_pairs after the key columns are built
MatchingDayPairs(current_data, current_keys, compare_data, compare_keys, total_expected_days) ==
    LET common_keys == KeySet(current_keys) \cap KeySet(compare_keys)
    IN  [current_data |-> KeepKeys(current_data, current_keys, common_keys),
         compare_data |-> KeepKeys(compare_data, compare_keys, common_keys),
         matched_day_count |-> Cardinality(common_keys),
         expected_day_count |-> total_expected_days,
         match_percentage |->
             Mul(Div(Num(Cardinality(common_keys)), Num(total_expected_days)), Num(100))]

westin_get_matching_day_pairs(rows, current_start, current_end, compare_start, compare_end) ==
    LET current_data == Between(rows, current_start, current_end)
        compare_data == Between(rows, compare_start, compare_end)
    IN  MatchingDayPairs(current_data,
                         [i \in DOMAIN current_data |-> match_key(current_data[i])],
                         compare_data,
                         [i \in DOMAIN compare_data |-> match_key(compare_data[i])],
                         DaysBetween(current_start, current_end) + 1)

(***************************************************************************)
(* Canopy: exact month-day matching.                                       *)
(***************************************************************************)
TwoDigits(n) == IF n < 10 THEN "0" \o ToString(n) ELSE ToString(n)

\* strftime('%m-%d')
strftime_md(t) == TwoDigits(MonthOf(t)) \o "-" \o TwoDigits(DayOf(t))

\* a key of the month alone
month_only(r) == TwoDigits(MonthOf(r.Date))

\* Date.dt.strftime('%m-%d')
month_day(r) == strftime_md(r.Date)

canopy_get_matching_day_pairs(rows, current_start, current_end, compare_start, compare_end) ==
    LET current_data == Between(rows, current_start, current_end)
        compare_data == Between(rows, compare_start, compare_end)
    IN  MatchingDayPairs(current_data,
                         [i \in DOMAIN current_data |-> month_day(current_data[i])],
                         compare_data,
                         [i \in DOMAIN compare_data |-> month_day(compare_data[i])],
                         DaysBetween(current_start, current_end) + 1)

(***************************************************************************)
(* get_matched_kpis of Westin and Canopy (the same text but for the        *)
(* constants), on the result of the dashboard's own matcher.               *)
(***************************************************************************)
\* 1 - target_savings_percent/100
target_fraction == Sub(Num(1), Div(Num(target_savings_percent), Num(100)))

progress_ratio(compare_total, current_total, target_usage) ==
    Mul(Div(Sub(compare_total, current_total), Sub(compare_total, target_usage)), Num(100))

\* the change taken relative to the current total instead of the comparison total
percent_change_of_current(current_total, compare_total) ==
    IF Eq(compare_total, Num(0)) THEN Num(0)
    ELSE Mul(Div(Sub(current_total, compare_total), current_total), Num(100))

matched_percent_change(current_total, compare_total) ==
    IF Eq(compare_total, Num(0)) THEN Num(0)
    ELSE Mul(Div(Sub(current_total, compare_total), compare_total), Num(100))

\* the progress without its upper clamp
matched_progress_unclamped(current_total, compare_total, target_usage) ==
    IF Ge(current_total, compare_total) THEN Num(0)
    ELSE PyMax(Num(0), progress_ratio(compare_total, current_total, target_usage))

matched_progress(current_total, compare_total, target_usage) ==
    IF Ge(current_total, compare_total) THEN Num(0)
    ELSE PyMin(Num(100),
               PyMax(Num(0), progress_ratio(compare_total, current_total, target_usage)))

\* the saving without the override for an increase of usage
kwh_saved_unguarded(current_total, compare_total) == Sub(compare_total, current_total)

matched_kwh_saved(current_total, compare_total) ==
    IF Ge(current_total, compare_total) THEN Num(0)
    ELSE Sub(compare_total, current_total)

get_matched_kpis(a, matched_data) ==
    LET current_data == matched_data.current_data
        compare_data == matched_data.compare_data
        current_total == Total(current_data)
        compare_total == Total(compare_data)
        raw_co2_saved == Mul(Sub(compare_total, current_total), ELECTRICITY_FACTOR(a))
        target_usage == Mul(compare_total, target_fraction)
        kwh_saved == matched_kwh_saved(current_total, compare_total)
    IN  [current_total |-> current_total,
         compare_total |-> compare_total,
         percent_change |-> matched_percent_change(current_total, compare_total),
         current_daily_avg |-> Mean(current_data),
         compare_daily_avg |-> Mean(compare_data),
         co2_saved |-> IF Ge(current_total, compare_total) THEN Num(0)
                       ELSE Mul(kwh_saved, ELECTRICITY_FACTOR(a)),
         kwh_saved |-> kwh_saved,
         matched_day_count |-> matched_data.matched_day_count,
         expected_day_count |-> matched_data.expected_day_count,
         match_percentage |-> matched_data.match_percentage,
         guest_usage |-> IF Len(current_data) > 0
                         THEN Div(current_total, Num(Len(current_data) * avg_guests(a)))
                         ELSE Num(0),
         progress_percentage |-> matched_progress(current_total, compare_total, target_usage),
         remaining_kwh |-> PyMax(Num(0), Sub(current_total, target_usage)),
         target_savings_percent |-> target_savings_percent,
         trees_equivalent |-> PyIntOfQuotient(raw_co2_saved, co2_per_tree)]

\* the denominators of the divisions get_matched_kpis and its matcher evaluate
matched_kpis_divisions(a, matched_data) ==
    LET current_total == Total(matched_data.current_data)
        compare_total == Total(matched_data.compare_data)
        target_usage == Mul(compare_total, target_fraction)
    IN  {[site |-> "match_percentage", den |-> Num(matched_data.expected_day_count)],
         [site |-> "target_fraction", den |-> Num(100)],
         [site |-> "trees_equivalent", den |-> Num(co2_per_tree)],
         [site |-> "progress", den |-> Sub(compare_total, target_usage)]}
        \cup (IF Eq(compare_total, Num(0)) THEN {}
              ELSE {[site |-> "percent_change", den |-> compare_total]})
        \cup (IF Len(matched_data.current_data) > 0
              THEN {[site |-> "guest_usage",
                     den |-> Num(Len(matched_data.current_data) * avg_guests(a))]}
              ELSE {})

(***************************************************************************)
(* Camden: get_comparison_kpis sums each range as it is.                   *)
(***************************************************************************)
get_comparison_kpis(rows, current_start, current_end, compare_start, compare_end) ==
    LET current_data == Between(rows, current_start, current_end)
        compare_data == Between(rows, compare_start, compare_end)
        current_total == Total(current_data)
        compare_total == Total(compare_data)
        co2_saved == Mul(Sub(compare_total, current_total), ELECTRICITY_FACTOR("camden"))
    IN  [current_total |-> current_total,
         compare_total |-> compare_total,
         percent_change |->
             IF Eq(compare_total, Num(0)) THEN Num(0)
             ELSE Mul(Div(Sub(current_total, compare_total), compare_total), Num(100)),
         current_daily_avg |-> Mean(current_data),
         compare_daily_avg |-> Mean(compare_data),
         co2_saved |-> PyMax(Num(0), co2_saved),
         kwh_saved |-> PyMax(Num(0), Sub(compare_total, current_total))]

\* main(): the DAILY AVERAGE card
camden_daily_change(k) ==
    Mul(Div(Sub(k.current_daily_avg, k.compare_daily_avg), k.compare_daily_avg), Num(100))

camden_divisions(k) ==
    {[site |-> "daily_change", den |-> k.compare_daily_avg]}
        \cup (IF Eq(k.compare_total, Num(0)) THEN {}
              ELSE {[site |-> "percent_change", den |-> k.compare_total]})

(***************************************************************************)
(* Comparison range.                                                       *)
(***************************************************************************)
Range(s, e) == [start |-> s, end |-> e]
NoRange == Range(0, 0)

\* t - pd.DateOffset(years=1): same month and time of day, the day cut to the
\* length of the month (29 February becomes 28 February)
MinusYearOffset(t) ==
    LET y == YearOf(t) - 1
        m == MonthOf(t)
        d == IF DayOf(t) > DaysInMonth(y, m) THEN DaysInMonth(y, m) ELSE DayOf(t)
    IN  DateTime(y, m, d) + TimeOf(t)

\* Westin and Camden
get_comparative_period(current_start, current_end) ==
    LET days_diff == DaysBetween(current_start, current_end)
        last_year_end == MinusYearOffset(current_end)
        last_year_start == MinusDays(last_year_end, days_diff)
    IN  Range(last_year_start, last_year_end)

\* t.replace(year=t.year - 1): ValueError when the day does not exist
ReplaceYearRaises(t) == DayOf(t) > DaysInMonth(YearOf(t) - 1, MonthOf(t))
ReplaceYear(t) == DateTime(YearOf(t) - 1, MonthOf(t), DayOf(t)) + TimeOf(t)

\* Canopy
canopy_comparative_raises(current_start, current_end) ==
    ReplaceYearRaises(current_start) \/ ReplaceYearRaises(current_end)
canopy_get_comparative_period(current_start, current_end) ==
    Range(ReplaceYear(current_start), ReplaceYear(current_end))

(***************************************************************************)
(* Period selection of the single-hotel dashboards.                        *)
(***************************************************************************)
challenge_start(a) == IF a = "camden" THEN DateTime(2025, 4, 14) ELSE DateTime(2025, 4, 15)
challenge_end(a) == IF a = "camden" THEN DateTime(2025, 4, 21) ELSE DateTime(2025, 4, 22)

\* Westin and Canopy: the if / elif chain with its else branch
matched_period(a, p, t) ==
    IF p = "Last 7 Days" THEN Range(MinusDays(t, 7), t)
    ELSE IF p = "Last 30 Days" THEN Range(MinusDays(t, 30), t)
    ELSE IF p = "Year to Date" THEN Range(DateTime(YearOf(t), 1, 1), t)
    ELSE Range(MinusDays(challenge_start(a), 365), MinusDays(challenge_end(a), 365))

\* Camden: the default range is Last 30 Days, overwritten by the branches
camden_period(p, t) ==
    IF p = "Last 7 Days" THEN Range(MinusDays(t, 7), t)
    ELSE IF p = "Year to Date" THEN Range(DateTime(YearOf(t), 1, 1), t)
    ELSE IF p = "Earth Day Challenge Period" THEN
        IF t > challenge_end("camden")
        THEN Range(challenge_start("camden"), challenge_end("camden"))
        ELSE Range(MinusDays(challenge_start("camden"), 365),
                   MinusDays(challenge_end("camden"), 365))
    ELSE Range(MinusDays(t, 30), t)

\* the branch of the chain that assigns the range: the literal the selection
\* is compared with, or "else"
matched_branch(p) ==
    IF p = "Last 7 Days" THEN "Last 7 Days"
    ELSE IF p = "Last 30 Days" THEN "Last 30 Days"
    ELSE IF p = "Year to Date" THEN "Year to Date"
    ELSE "else"

\* Camden: "default" when no branch assigns and the pre-set range stays
camden_branch(p) ==
    IF p = "Last 7 Days" THEN "Last 7 Days"
    ELSE IF p = "Year to Date" THEN "Year to Date"
    ELSE IF p = "Earth Day Challenge Period" THEN "Earth Day Challenge Period"
    ELSE "default"

MatchedOptions == {"Year to Date", "Last 7 Days", "Last 30 Days"}
CamdenOptions == {"Last 30 Days", "Last 7 Days", "Year to Date", "Earth Day Challenge Period"}

(***************************************************************************)
(* Race dashboard (4cgroup): days on which every hotel has data in both    *)
(* years, and the per-hotel metrics over those days.                       *)
(***************************************************************************)
RECURSIVE Sorted(_)
\* sorted(...) of a set of datetimes
Sorted(S) ==
    IF S = {} THEN <<>>
    ELSE LET m == CHOOSE x \in S : \A y \in S : x <= y
         IN  <<m>> \o Sorted(S \ {m})

Range_(seq) == {seq[i] : i \in DOMAIN seq}

\* the dates of a year on which some hotel has data
find_dates_of_any_hotel(rows, year) ==
    LET year_data == SelectSeq(rows, LAMBDA r : YearOf(r.Date) = year)
    IN  Sorted({year_data[i].Date : i \in DOMAIN year_data})

find_available_dates(rows, year) ==
    LET year_data == SelectSeq(rows, LAMBDA r : YearOf(r.Date) = year)
        all_dates == {year_data[i].Date : i \in DOMAIN year_data}
        hotels_with_data(date) ==
            {year_data[i].Hotel : i \in {j \in DOMAIN year_data : year_data[j].Date = date}}
    IN  Sorted({date \in all_dates : \A hotel \in Hotels : hotel \in hotels_with_data(date)})

find_matching_days(rows, current_year, previous_year, start_date, end_date) ==
    LET current_year_dates == find_available_dates(rows, current_year)
        previous_year_dates == find_available_dates(rows, previous_year)
        common_keys == {strftime_md(d) : d \in Range_(current_year_dates)}
                           \cap {strftime_md(d) : d \in Range_(previous_year_dates)}
        matching_current_dates ==
            SelectSeq(SelectSeq(current_year_dates, LAMBDA d : strftime_md(d) \in common_keys),
                      LAMBDA d : start_date <= d /\ d <= end_date)
        month_days_in_range == {strftime_md(d) : d \in Range_(matching_current_dates)}
        matching_previous_dates ==
            SelectSeq(SelectSeq(previous_year_dates, LAMBDA d : strftime_md(d) \in common_keys),
                      LAMBDA d : strftime_md(d) \in month_days_in_range)
    IN  [current_dates |-> matching_current_dates,
         previous_dates |-> matching_previous_dates]

race_percent_change(current_total, previous_total) ==
    IF Eq(previous_total, Num(0)) THEN Num(0)
    ELSE Mul(Div(Sub(current_total, previous_total), previous_total), Num(100))

\* the progress without min(100, ...)
race_progress_unclamped(current_total, previous_total, target_usage) ==
    IF Lt(current_total, previous_total)
    THEN progress_ratio(previous_total, current_total, target_usage)
    ELSE Num(0)

race_progress(current_total, previous_total, target_usage) ==
    IF Lt(current_total, previous_total)
    THEN PyMin(Num(100), progress_ratio(previous_total, current_total, target_usage))
    ELSE Num(0)

race_kwh_saved(current_total, previous_total) ==
    IF Lt(current_total, previous_total) THEN Sub(previous_total, current_total)
    ELSE Num(0)

hotel_metrics(rows, matched_dates, hotel) ==
    LET hotel_data == SelectSeq(rows, LAMBDA r : r.Hotel = hotel)
        current_data ==
            SelectSeq(hotel_data, LAMBDA r : r.Date \in Range_(matched_dates.current_dates))
        previous_data ==
            SelectSeq(hotel_data, LAMBDA r : r.Date \in Range_(matched_dates.previous_dates))
        current_total == Total(current_data)
        previous_total == Total(previous_data)
        percent_change == race_percent_change(current_total, previous_total)
        target_usage == Mul(previous_total, target_fraction)
    IN  [current_total |-> current_total,
         previous_total |-> previous_total,
         percent_change |-> percent_change,
         progress_percentage |-> race_progress(current_total, previous_total, target_usage),
         energy_reduction |-> PyAbs(PyMin(Num(0), percent_change)),
         target_savings_percent |-> target_savings_percent,
         kwh_saved |-> race_kwh_saved(current_total, previous_total)]

\* {} when either list of dates is empty
calculate_hotel_metrics(rows, matched_dates) ==
    IF Len(matched_dates.current_dates) = 0 \/ Len(matched_dates.previous_dates) = 0
    THEN <<>>
    ELSE [hotel \in Hotels |-> hotel_metrics(rows, matched_dates, hotel)]

\* the first hotel of the metrics, whatever its reduction
first_hotel(m) ==
    IF DOMAIN m = {} THEN "None" ELSE mpan_to_hotel[1]

\* sorted(metrics.items(), key=energy_reduction, reverse=True)[0][0]: of the
\* hotels of the largest reduction the first in the order of the metrics
leader(m) ==
    IF DOMAIN m = {} THEN "None"
    ELSE LET best == {i \in DOMAIN mpan_to_hotel :
                         \A j \in DOMAIN mpan_to_hotel :
                             Ge(m[mpan_to_hotel[i]].energy_reduction,
                                m[mpan_to_hotel[j]].energy_reduction)}
         IN  mpan_to_hotel[CHOOSE i \in best : \A j \in best : i <= j]

race_divisions(m) ==
    UNION {{[site |-> "target_fraction", den |-> Num(100)]}
             \cup (IF Eq(m[h].previous_total, Num(0)) THEN {}
                   ELSE {[site |-> "percent_change", den |-> m[h].previous_total]})
             \cup (IF Lt(m[h].current_total, m[h].previous_total)
                   THEN {[site |-> "progress",
                          den |-> Sub(m[h].previous_total,
                                      Mul(m[h].previous_total, target_fraction))]}
                   ELSE {}) : h \in DOMAIN m}

\* main(): period_text to (period_start, period_end); the last branch is the else
race_period(p, t) ==
    LET first_day_current_month == DateTime(YearOf(t), MonthOf(t), 1)
        last_day_prev_month == MinusDays(first_day_current_month, 1)
    IN  CASE p = "Last 7 Days" -> Range(MinusDays(t, 7), t)
          [] p = "Last 30 Days" -> Range(MinusDays(t, 30), t)
          [] p = "Earth Day Challenge" -> Range(DateTime(2025, 4, 15), DateTime(2025, 4, 22))
          [] p = "This Month" -> Range(first_day_current_month, t)
          [] p = "Previous Month" ->
                Range(DateTime(YearOf(last_day_prev_month), MonthOf(last_day_prev_month), 1),
                      last_day_prev_month)
          [] p = "January 2025" -> Range(DateTime(2025, 1, 1), DateTime(2025, 1, 31))
          [] p = "February 2025" -> Range(DateTime(2025, 2, 1), DateTime(2025, 2, 28))
          [] p = "March 2025" -> Range(DateTime(2025, 3, 1), DateTime(2025, 3, 31))
          [] p = "April 2025" -> Range(DateTime(2025, 4, 1), DateTime(2025, 4, 30))
          [] OTHER -> Range(DateTime(YearOf(t), 1, 1), t)

\* the branch of the race dashboard's chain that assigns the range
race_branch(p) ==
    IF p \in {"Last 7 Days", "Last 30 Days", "Earth Day Challenge", "This Month",
              "Previous Month", "January 2025", "February 2025", "March 2025",
              "April 2025"}
    THEN p ELSE "else"

RaceOptions ==
    {"Year to Date", "Earth Day Challenge", "Last 7 Days", "Last 30 Days", "This Month",
     "Previous Month", "January 2025", "February 2025", "March 2025", "April 2025"}

(***************************************************************************)
(* CIE and CIV: first-quarter comparison of the two latest years of the    *)
(* monthly table.                                                          *)
(***************************************************************************)
q1_months == {1, 2, 3}

RECURSIVE SumValue(_)
SumValue(rows) ==
    IF rows = <<>> THEN 0 ELSE rows[1].Value + SumValue(Tail(rows))

\* the result, or None (the empty set) where the code returns None
calculate_q1_comparison(df) ==
    LET years == Sorted({df[i].Year : i \in DOMAIN df})
    IN  IF Len(years) < 2 THEN {}
        ELSE
        LET current_year == years[Len(years)]
            previous_year == years[Len(years) - 1]
            current_data ==
                SelectSeq(df, LAMBDA r : r.Year = current_year /\ r.MonthNum \in q1_months)
            previous_data ==
                SelectSeq(df, LAMBDA r : r.Year = previous_year /\ r.MonthNum \in q1_months)
            current_total == Num(SumValue(current_data))
            previous_total == Num(SumValue(previous_data))
            percent_change ==
                Mul(Div(Sub(current_total, previous_total), previous_total), Num(100))
            energy_saved ==
                IF Lt(percent_change, Num(0)) THEN Sub(previous_total, current_total)
                ELSE Num(0)
        IN  IF Len(current_data) = 0 \/ Len(previous_data) = 0 THEN {}
            ELSE {[current_year |-> current_year,
                   previous_year |-> previous_year,
                   current_total |-> current_total,
                   previous_total |-> previous_total,
                   percent_change |-> percent_change,
                   energy_saved |-> energy_saved,
                   co2_prevented |-> Mul(energy_saved, ELECTRICITY_FACTOR("cie")),
                   q1_months |-> q1_months,
                   months_compared |-> Len(current_data)]}

q1_divisions(c) == {[site |-> "percent_change", den |-> x.previous_total] : x \in c}

(***************************************************************************)
(* Inputs: the days the rows of a series may fall on, their usage values,  *)
(* and the instants at which main() may run.                               *)
(***************************************************************************)
\* the days on which a series may have rows.  Against 2023-03-01 (Wednesday,
\* first week of March): 2024-03-01 has its month and day but is a Friday,
\* 2024-03-06 is the first Wednesday of March, 2024-03-13 the second, and
\* 2024-02-29 has no counterpart in 2023
PoolDates ==
    <<DateTime(2023, 3, 1), DateTime(2024, 2, 29), DateTime(2024, 3, 1),
      DateTime(2024, 3, 6), DateTime(2024, 3, 13)>>

\* kWh of a row: 0 or 20 in the earlier year, 18, 19 or 20 in the later one
\* (18 against 20 is a reduction of exactly 10%)
UsageValues(date) ==
    IF YearOf(date) = YearOf(PoolDates[1]) THEN <<0, 20>> ELSE <<18, 19, 20>>

RECURSIVE RowKindsFrom(_)
RowKindsFrom(i) ==
    IF i > Len(PoolDates) THEN <<>>
    ELSE [j \in 1..Len(UsageValues(PoolDates[i])) |->
             [Date |-> PoolDates[i], Usage |-> UsageValues(PoolDates[i])[j]]]
         \o RowKindsFrom(i + 1)

\* the rows a series may hold, in date order
RowKinds == RowKindsFrom(1)

\* every series of at most MaxRows rows in the order of ORDER BY Date; the same
\* day may occur in several rows, as nothing in load_data removes duplicates
HotelSeries ==
    UNION {{[j \in 1..n |-> RowKinds[f[j]]] :
                f \in {g \in [1..n -> DOMAIN RowKinds] :
                          \A j \in 1..n : j < n => g[j] <= g[j + 1]}} :
           n \in 0..MaxRows}

\* datetime.today(): a day and a time of day after midnight
TodayDays == {DateTime(2024, 3, 14)}
Todays == {d + tick : d \in TodayDays, tick \in 1..(TicksPerDay - 1)}

\* the race data: on each of RaceDates either every hotel has a row, or every
\* hotel but one, or none; the Westin uses (previous year, current year) kWh
\* per day as in one of RaceProfiles, the other hotels 20 and 19
RaceDates == <<DateTime(2023, 3, 1), DateTime(2024, 2, 29), DateTime(2024, 3, 1)>>

RaceCoverage == {Hotels, Hotels \ {"EH"}, {}}

RaceProfiles == {<<20, 18>>, <<20, 19>>, <<20, 0>>, <<0, 18>>, <<20, 20>>, <<18, 20>>}

RaceCells ==
    [k \in 1..(Len(RaceDates) * Len(mpan_to_hotel)) |->
        [Date |-> RaceDates[((k - 1) \div Len(mpan_to_hotel)) + 1],
         Hotel |-> mpan_to_hotel[((k - 1) % Len(mpan_to_hotel)) + 1]]]

RaceUsage(cell, w) ==
    LET profile == IF cell.Hotel = "Westin" THEN w ELSE <<20, 19>>
    IN  IF YearOf(cell.Date) = YearOf(RaceDates[1]) THEN profile[1] ELSE profile[2]

RaceData(cov, w) ==
    LET cells == SelectSeq(RaceCells, LAMBDA c : c.Hotel \in cov[c.Date])
    IN  [i \in DOMAIN cells |->
            [Date |-> cells[i].Date, Hotel |-> cells[i].Hotel,
             Usage |-> RaceUsage(cells[i], w)]]

RaceSeries ==
    {RaceData(cov, w) : cov \in [Range_(RaceDates) -> RaceCoverage], w \in RaceProfiles}

\* the monthly table of CIE / CIV after load_data: one row per (Year, MonthNum),
\* in date order, at most MaxMonths rows
MonthKeys == <<<<2023, 1>>, <<2024, 1>>, <<2024, 4>>, <<2025, 1>>, <<2025, 2>>>>
MonthValues == {0, 18, 20}

MonthTable(keys, val) ==
    LET ks == SelectSeq(MonthKeys, LAMBDA k : k \in keys)
    IN  [i \in DOMAIN ks |-> [Year |-> ks[i][1], MonthNum |-> ks[i][2], Value |-> val[ks[i]]]]

MonthTables ==
    UNION {{MonthTable(keys, val) : val \in [keys -> MonthValues]} :
           keys \in {K \in SUBSET Range_(MonthKeys) : Cardinality(K) <= MaxMonths}}

(***************************************************************************)
(* One run of main() of each dashboard.                                    *)
(***************************************************************************)
\* st.warning(f"No data found for {HOTEL_NAME}. ...") before st.stop()
no_data_found == "No data found"
\* st.info("Showing projected data for upcoming Earth Day Challenge")
projected_data == "Showing projected data for upcoming Earth Day Challenge"
\* st.error("No data available for this period.") before st.stop()
no_data_available == "No data available for this period."
\* st.error("No data loaded. Please check your elec.csv file.")
no_data_loaded == "No data loaded"
\* the st.warning of calculate_q1_comparison when it returns None
need_two_years == "Need at least 2 years of data for comparison."
missing_period == "Missing data for one of the comparison periods."

\* Camden: the notice of the else branch of the challenge period
camden_notices(p, t) ==
    IF p = "Earth Day Challenge Period" /\ ~(t > challenge_end("camden"))
    THEN {projected_data} ELSE {}

\* CIE and CIV: the warnings of calculate_q1_comparison
q1_notices(df) ==
    IF Cardinality({df[i].Year : i \in DOMAIN df}) < 2 THEN {need_two_years}
    ELSE IF calculate_q1_comparison(df) = {} THEN {missing_period}
    ELSE {}

\* st.stop() before anything is computed, or an uncaught exception
NothingShown(how) ==
    /\ cur' = NoRange /\ cmp' = NoRange
    /\ matched' = {} /\ kpis' = {} /\ daily_change' = {}
    /\ metrics' = <<>> /\ comparison' = {}
    /\ divisions' = {}
    /\ outcome' = how

\* the one element of a computed result
The(S) == CHOOSE x \in S : TRUE

\* main() from the series d that load_data returned, which showed the
\* messages in loading
WestinRun(d, loading, t, p) ==
    /\ today' = t /\ period' = p
    /\ IF Len(d) = 0 THEN NothingShown("stopped")
       ELSE /\ cur' = matched_period("westin", p, t)
            /\ cmp' = get_comparative_period(cur'.start, cur'.end)
            /\ matched' = {westin_get_matching_day_pairs(
                               d, cur'.start, cur'.end, cmp'.start, cmp'.end)}
            /\ kpis' = {get_matched_kpis("westin", The(matched'))}
            /\ divisions' = matched_kpis_divisions("westin", The(matched'))
            /\ outcome' = "shown"
            /\ daily_change' = {} /\ metrics' = <<>> /\ comparison' = {}
    /\ notices' = loading \cup (IF Len(d) = 0 THEN {no_data_found} ELSE {})

WestinMain(t, p) ==
    /\ app = "westin"
    /\ WestinRun(data, {}, t, p)
    /\ UNCHANGED <<app, data, source, cache, reads, served>>

CanopyRun(d, loading, t, p) ==
    /\ today' = t /\ period' = p
    /\ IF Len(d) = 0 THEN NothingShown("stopped")
       ELSE LET c == matched_period("canopy", p, t)
            IN  IF canopy_comparative_raises(c.start, c.end)
                THEN NothingShown("error")
                ELSE /\ cur' = c
                     /\ cmp' = canopy_get_comparative_period(c.start, c.end)
                     /\ matched' = {canopy_get_matching_day_pairs(
                                        d, c.start, c.end, cmp'.start, cmp'.end)}
                     /\ kpis' = {get_matched_kpis("canopy", The(matched'))}
                     /\ divisions' = matched_kpis_divisions("canopy", The(matched'))
                     /\ outcome' = "shown"
                     /\ daily_change' = {} /\ metrics' = <<>> /\ comparison' = {}
    /\ notices' = loading \cup (IF Len(d) = 0 THEN {no_data_found} ELSE {})

CanopyMain(t, p) ==
    /\ app = "canopy"
    /\ CanopyRun(data, {}, t, p)
    /\ UNCHANGED <<app, data, source, cache, reads, served>>

CamdenRun(d, loading, t, p) ==
    /\ today' = t /\ period' = p
    /\ IF Len(d) = 0 THEN NothingShown("stopped")
       ELSE /\ cur' = camden_period(p, t)
            /\ cmp' = get_comparative_period(cur'.start, cur'.end)
            /\ kpis' = {get_comparison_kpis(
                            d, cur'.start, cur'.end, cmp'.start, cmp'.end)}
            /\ daily_change' = {camden_daily_change(The(kpis'))}
            /\ divisions' = camden_divisions(The(kpis'))
            /\ outcome' = "shown"
            /\ matched' = {} /\ metrics' = <<>> /\ comparison' = {}
    /\ notices' = loading \cup (IF Len(d) = 0 THEN {no_data_found} ELSE camden_notices(p, t))

CamdenMain(t, p) ==
    /\ app = "camden"
    /\ CamdenRun(data, {}, t, p)
    /\ UNCHANGED <<app, data, source, cache, reads, served>>

RaceRun(d, loading, t, p) ==
    /\ today' = t /\ period' = p
    /\ cur' = race_period(p, t)
    /\ cmp' = NoRange
    /\ matched' = {find_matching_days(d, YearOf(t), YearOf(t) - 1, cur'.start, cur'.end)}
    /\ metrics' = calculate_hotel_metrics(d, The(matched'))
    /\ divisions' = race_divisions(metrics')
    /\ outcome' = IF DOMAIN metrics' = {} THEN "stopped" ELSE "shown"
    /\ kpis' = {} /\ daily_change' = {} /\ comparison' = {}
    /\ notices' = loading \cup (IF DOMAIN metrics' = {} THEN {no_data_available} ELSE {})

RaceMain(t, p) ==
    /\ app = "race"
    /\ RaceRun(data, {}, t, p)
    /\ UNCHANGED <<app, data, source, cache, reads, served>>

\* CIE and CIV: no date or period enters the computation
Q1Run(d, loading) ==
    /\ IF Len(d) = 0 THEN NothingShown("stopped")
       ELSE /\ comparison' = calculate_q1_comparison(d)
            /\ divisions' = q1_divisions(comparison')
            /\ outcome' = "shown"
            /\ cur' = NoRange /\ cmp' = NoRange
            /\ matched' = {} /\ kpis' = {} /\ daily_change' = {} /\ metrics' = <<>>
    /\ notices' = loading \cup (IF Len(d) = 0 THEN {no_data_loaded} ELSE q1_notices(d))
    /\ UNCHANGED <<today, period>>

Q1Main ==
    /\ app \in {"cie", "civ"}
    /\ Q1Run(data, {})
    /\ UNCHANGED <<app, data, source, cache, reads, served>>

Apps == {"westin", "canopy", "camden", "race", "cie", "civ"}

DataOf(a) ==
    IF a = "race" THEN RaceSeries
    ELSE IF a \in {"cie", "civ"} THEN MonthTables
    ELSE HotelSeries

Init ==
    /\ app \in Apps
    /\ data \in DataOf(app)
    /\ today = 0 /\ period = ""
    /\ cur = NoRange /\ cmp = NoRange
    /\ matched = {} /\ kpis = {} /\ daily_change = {}
    /\ metrics = <<>> /\ comparison = {}
    /\ outcome = "init"
    /\ divisions = {}
    /\ notices = {}
    /\ source = [readable |-> TRUE, rows |-> data]
    /\ cache = {} /\ reads = 0 /\ served = "none"

Next ==
    \/ \E t \in Todays, p \in MatchedOptions : WestinMain(t, p)
    \/ \E t \in Todays, p \in MatchedOptions : CanopyMain(t, p)
    \/ \E t \in Todays, p \in CamdenOptions : CamdenMain(t, p)
    \/ \E t \in Todays, p \in RaceOptions : RaceMain(t, p)
    \/ Q1Main

Spec == Init /\ [][Next]_vars

(***************************************************************************)
(* Sessions on several days: the same runs of main() of the four dashboards*)
(* with a period selector, on a few short series and on days around       *)
(* 29 February, the turn of the year and the challenge window.             *)
(***************************************************************************)
\* datetime.today(): the day of a run
PeriodTodayDays ==
    {DateTime(2024, 2, 29), DateTime(2024, 3, 14), DateTime(2025, 1, 5),
     DateTime(2025, 4, 10), DateTime(2025, 4, 14), DateTime(2025, 4, 18),
     DateTime(2025, 4, 25), DateTime(2026, 1, 5)}
PeriodTodays == {d + tick : d \in PeriodTodayDays, tick \in 1..(TicksPerDay - 1)}

\* rows of a short series: 2024-03-07 and 2024-03-14 are the first and the
\* last day of the last 7 days of 2024-03-14; 200 kWh against 20 kWh is an
\* increase whose CO2 exceeds that of a tree
PeriodRowKinds ==
    <<[Date |-> DateTime(2023, 3, 1), Usage |-> 20],
      [Date |-> DateTime(2023, 3, 1), Usage |-> 200],
      [Date |-> DateTime(2024, 3, 1), Usage |-> 200],
      [Date |-> DateTime(2024, 3, 6), Usage |-> 200],
      [Date |-> DateTime(2024, 3, 7), Usage |-> 18],
      [Date |-> DateTime(2024, 3, 14), Usage |-> 18]>>

\* one row for every day of 1..5 January 2024 (20 kWh) and 2025 (18 kWh): the
\* year to date of 2025-01-05 and the same days a year earlier
JanuarySeries ==
    [i \in 1..10 |->
        IF i <= 5 THEN [Date |-> DateTime(2024, 1, i), Usage |-> 20]
        ELSE [Date |-> DateTime(2025, 1, i - 5), Usage |-> 18]]

\* the series of one or two of these rows, in date order, and the January series
PeriodSeries ==
    {<<PeriodRowKinds[i]>> : i \in DOMAIN PeriodRowKinds}
        \cup {<<PeriodRowKinds[x[1]], PeriodRowKinds[x[2]]>> :
                 x \in {y \in (DOMAIN PeriodRowKinds) \X (DOMAIN PeriodRowKinds) :
                           y[1] < y[2]}}
        \cup {JanuarySeries}

\* race data: every day of RaceDates covered by all hotels, by all but one, by none
PeriodRaceSeries ==
    {RaceData([d \in Range_(RaceDates) |-> c], <<20, 18>>) : c \in RaceCoverage}

\* race data with a row of every hotel on every day of 15..22 April 2024
\* (20 kWh) and 2025 (18 kWh), in date order
ChallengeRaceSeries ==
    [k \in 1..(2 * 8 * Len(mpan_to_hotel)) |->
        LET cell == (k - 1) \div Len(mpan_to_hotel)
        IN  [Date |-> DateTime(2024 + (cell \div 8), 4, 15 + (cell % 8)),
             Hotel |-> mpan_to_hotel[((k - 1) % Len(mpan_to_hotel)) + 1],
             Usage |-> IF cell \div 8 = 0 THEN 20 ELSE 18]]

PeriodApps == {"westin", "canopy", "camden", "race"}

PeriodInit ==
    /\ app \in PeriodApps
    /\ data \in (IF app = "race" THEN PeriodRaceSeries \cup {ChallengeRaceSeries}
                 ELSE PeriodSeries)
    /\ today = 0 /\ period = ""
    /\ cur = NoRange /\ cmp = NoRange
    /\ matched = {} /\ kpis = {} /\ daily_change = {}
    /\ metrics = <<>> /\ comparison = {}
    /\ outcome = "init"
    /\ divisions = {}
    /\ notices = {}
    /\ source = [readable |-> TRUE, rows |-> data]
    /\ cache = {} /\ reads = 0 /\ served = "none"

PeriodNext ==
    \/ \E t \in PeriodTodays, p \in MatchedOptions : WestinMain(t, p)
    \/ \E t \in PeriodTodays, p \in MatchedOptions : CanopyMain(t, p)
    \/ \E t \in PeriodTodays, p \in CamdenOptions : CamdenMain(t, p)
    \/ \E t \in PeriodTodays, p \in RaceOptions : RaceMain(t, p)

PeriodSpec == PeriodInit /\ [][PeriodNext]_vars

(***************************************************************************)
(* The Canopy pipeline as a function: get_comparative_period,              *)
(* get_matching_day_pairs and get_matched_kpis applied to a series with    *)
(* one row per day in April 2024 and April 2025 and a current range in     *)
(* April 2025.                                                             *)
(***************************************************************************)
\* largest number of April days of a daily series and of a current range
MaxScenarioDays == 10

\* one row per day on the first n days of April of a year, each of the same usage
DailyRows(year, n, usage) ==
    [i \in 1..n |-> [Date |-> DateTime(year, 4, i), Usage |-> usage]]

\* daily usage of the current year, against 100 kWh a day the year before
ScenarioUsage == {90, 95, 100, 110}

ScenarioSeries ==
    {DailyRows(2024, n, 100) \o DailyRows(2025, n, u) :
        n \in 1..MaxScenarioDays, u \in ScenarioUsage}

ScenarioRanges ==
    {Range(DateTime(2025, 4, 1), DateTime(2025, 4, e)) : e \in 1..MaxScenarioDays}

ScenarioInit ==
    /\ app = "canopy"
    /\ data \in ScenarioSeries
    /\ cur \in ScenarioRanges
    /\ today = 0 /\ period = ""
    /\ cmp = NoRange
    /\ matched = {} /\ kpis = {} /\ daily_change = {}
    /\ metrics = <<>> /\ comparison = {}
    /\ outcome = "init"
    /\ divisions = {}
    /\ notices = {}
    /\ source = [readable |-> TRUE, rows |-> data]
    /\ cache = {} /\ reads = 0 /\ served = "none"

\* compare range, matched days and KPIs of the current range, as main() chains them
CanopyPipeline ==
    /\ app = "canopy"
    /\ ~canopy_comparative_raises(cur.start, cur.end)
    /\ cmp' = canopy_get_comparative_period(cur.start, cur.end)
    /\ matched' = {canopy_get_matching_day_pairs(
                       data, cur.start, cur.end, cmp'.start, cmp'.end)}
    /\ kpis' = {get_matched_kpis(app, The(matched'))}
    /\ divisions' = matched_kpis_divisions(app, The(matched'))
    /\ outcome' = "shown"
    /\ UNCHANGED <<app, data, today, period, cur, daily_change, metrics,
                   comparison, notices, source, cache, reads, served>>

ScenarioNext == CanopyPipeline

ScenarioSpec == ScenarioInit /\ [][ScenarioNext]_vars

(***************************************************************************)
(* Loading: load_data with its fallback, st.cache_data around it, and      *)
(* sessions that start before the first load.  Every step is a complete    *)
(* run of main() from its call of load_data on, a change of the source, or *)
(* the viewer clearing the cache from the application menu.                *)
(***************************************************************************)
\* most runs of load_data's body between two clearings of the cache
MaxReads == 3
\* days before today the model keeps of a simulated series
SimulatedDays == 1

RECURSIVE OrderByDate(_)
\* ORDER BY Date: rows of the same date stay in the order of the table
OrderByDate(rows) ==
    IF rows = <<>> THEN <<>>
    ELSE LET first == CHOOSE d \in {rows[i].Date : i \in DOMAIN rows} :
                          \A i \in DOMAIN rows : d <= rows[i].Date
         IN  SelectSeq(rows, LAMBDA r : r.Date = first)
                 \o OrderByDate(SelectSeq(rows, LAMBDA r : r.Date # first))

\* load_data of the hotel and race dashboards on a readable database: every
\* row of the query, in date order
hh_load_data(rows) == OrderByDate(rows)

\* load_data of CIE / CIV on a readable CSV: one row per (Year, MonthNum) with
\* the mean of the rows of that month, in date order
q1_load_data(rows) ==
    LET months == Sorted({rows[i].Year * 12 + (rows[i].MonthNum - 1) : i \in DOMAIN rows})
        group(k) == SelectSeq(rows, LAMBDA r : r.Year * 12 + (r.MonthNum - 1) = k)
    IN  [i \in DOMAIN months |->
            [Year |-> months[i] \div 12,
             MonthNum |-> (months[i] % 12) + 1,
             Value |-> SumValue(group(months[i])) \div Len(group(months[i]))]]

\* kWh a day of a simulated series
SimulatedUsage == {170, 200}

\* pd.date_range(start=start_date, end=end_date, freq='D'): one row a day at
\* today's time of day, here the last SimulatedDays + 1 of them
simulated_dates(end_date) ==
    [k \in 1..(SimulatedDays + 1) |-> MinusDays(end_date, SimulatedDays + 1 - k)]

\* the race dashboard's simulated Camden and Westin rows stop in April 2025
hotel_end_date(hotel, end_date) ==
    IF hotel = "Camden" /\ end_date > DateTime(2025, 4, 16) THEN DateTime(2025, 4, 16)
    ELSE IF hotel = "Westin" /\ end_date > DateTime(2025, 4, 15) THEN DateTime(2025, 4, 15)
    ELSE end_date

RECURSIVE simulated_hotels(_, _, _)
simulated_hotels(i, end_date, usage) ==
    IF i > Len(mpan_to_hotel) THEN <<>>
    ELSE LET hotel == mpan_to_hotel[i]
             dates == SelectSeq(simulated_dates(end_date),
                                LAMBDA d : d <= hotel_end_date(hotel, end_date))
         IN  [k \in DOMAIN dates |-> [Date |-> dates[k], Hotel |-> hotel, Usage |-> usage]]
                 \o simulated_hotels(i + 1, end_date, usage)

generate_simulated_data(a, end_date, usage) ==
    IF a = "race" THEN simulated_hotels(1, end_date, usage)
    ELSE [k \in 1..(SimulatedDays + 1) |->
             [Date |-> simulated_dates(end_date)[k], Usage |-> usage]]

\* st.error(f"Error: {str(e)}") of the hotel and race dashboards
load_error == "Error: "
\* st.error(f"Error loading data: {str(e)}") of CIE / CIV
csv_error == "Error loading data: "

Q1Apps == {"cie", "civ"}

\* what a run of load_data's body may return: the rows and where they come from
load_data(a, end_date) ==
    IF a \in Q1Apps
    THEN IF source.readable
         THEN {[rows |-> q1_load_data(source.rows), kind |-> "source"]}
         ELSE {[rows |-> <<>>, kind |-> "failed"]}
    ELSE IF source.readable
         THEN {[rows |-> hh_load_data(source.rows), kind |-> "source"]}
         ELSE {[rows |-> generate_simulated_data(a, end_date, u), kind |-> "simulated"] :
                  u \in SimulatedUsage}

\* the call of load_data in main(): Canopy's main() empties the cache first;
\* CIE and CIV have no cache; a cached result is returned without a read
CallLoadData(a, end_date) ==
    LET kept == IF a = "canopy" THEN {} ELSE cache
    IN  IF kept # {}
        THEN /\ data' = The(kept).rows
             /\ served' = The(kept).kind
             /\ UNCHANGED <<cache, reads>>
        ELSE /\ reads < MaxReads
             /\ \E r \in load_data(a, end_date) :
                  /\ data' = r.rows
                  /\ served' = r.kind
                  /\ cache' = IF a \in Q1Apps THEN {} ELSE {r}
             /\ reads' = reads + 1

\* the messages load_data showed, replayed by st.cache_data on a cached call
LoadingNotices ==
    IF served' = "simulated" THEN {load_error}
    ELSE IF served' = "failed" THEN {csv_error}
    ELSE {}

WestinRender(t, p) ==
    /\ app = "westin"
    /\ CallLoadData(app, t)
    /\ WestinRun(data', LoadingNotices, t, p)
    /\ UNCHANGED <<app, source>>

CanopyRender(t, p) ==
    /\ app = "canopy"
    /\ CallLoadData(app, t)
    /\ CanopyRun(data', LoadingNotices, t, p)
    /\ UNCHANGED <<app, source>>

CamdenRender(t, p) ==
    /\ app = "camden"
    /\ CallLoadData(app, t)
    /\ CamdenRun(data', LoadingNotices, t, p)
    /\ UNCHANGED <<app, source>>

RaceRender(t, p) ==
    /\ app = "race"
    /\ CallLoadData(app, t)
    /\ RaceRun(data', LoadingNotices, t, p)
    /\ UNCHANGED <<app, source>>

Q1Render ==
    /\ app \in Q1Apps
    /\ CallLoadData(app, 0)
    /\ Q1Run(data', LoadingNotices)
    /\ UNCHANGED <<app, source>>

\* the viewer's "Clear cache" of the application menu
ClearCache ==
    /\ cache # {}
    /\ cache' = {} /\ reads' = 0
    /\ UNCHANGED <<app, data, today, period, cur, cmp, matched, kpis, daily_change,
                   metrics, comparison, outcome, divisions, notices, source, served>>

\* the database or the CSV file becomes unreadable, or readable again
SourceFails ==
    /\ source.readable
    /\ source' = [source EXCEPT !.readable = FALSE]
    /\ UNCHANGED <<app, data, today, period, cur, cmp, matched, kpis, daily_change,
                   metrics, comparison, outcome, divisions, notices, cache, reads, served>>

SourceRecovers ==
    /\ ~source.readable
    /\ source' = [source EXCEPT !.readable = TRUE]
    /\ UNCHANGED <<app, data, today, period, cur, cmp, matched, kpis, daily_change,
                   metrics, comparison, outcome, divisions, notices, cache, reads, served>>

\* rows of hh_data of one meter: two of them on the same day
LoadRowKinds ==
    <<[Date |-> DateTime(2023, 3, 1), Usage |-> 20],
      [Date |-> DateTime(2024, 3, 1), Usage |-> 18],
      [Date |-> DateTime(2024, 3, 1), Usage |-> 20]>>

\* the empty table and every table of two rows, in any order
HotelTables ==
    {<<>>} \cup {<<LoadRowKinds[i], LoadRowKinds[j]>> :
                    i \in DOMAIN LoadRowKinds, j \in DOMAIN LoadRowKinds}

\* hh_data of the five meters, also with every row twice
RaceTables ==
    PeriodRaceSeries
        \cup {RaceData([d \in Range_(RaceDates) |-> Hotels], <<20, 18>>)
                  \o RaceData([d \in Range_(RaceDates) |-> Hotels], <<20, 18>>)}

\* rows of elec.csv: two of them in the same month; their means are whole
CsvRowKinds ==
    <<[Year |-> 2024, MonthNum |-> 1, Value |-> 20],
      [Year |-> 2025, MonthNum |-> 1, Value |-> 18],
      [Year |-> 2025, MonthNum |-> 1, Value |-> 20]>>

CsvTables ==
    {<<>>} \cup {<<CsvRowKinds[i], CsvRowKinds[j]>> :
                    i \in DOMAIN CsvRowKinds, j \in DOMAIN CsvRowKinds}

TablesOf(a) ==
    IF a = "race" THEN RaceTables
    ELSE IF a \in Q1Apps THEN CsvTables
    ELSE HotelTables

LoadInit ==
    /\ app \in Apps
    /\ source \in [readable : BOOLEAN, rows : TablesOf(app)]
    /\ data = <<>>
    /\ cache = {} /\ reads = 0 /\ served = "none"
    /\ today = 0 /\ period = ""
    /\ cur = NoRange /\ cmp = NoRange
    /\ matched = {} /\ kpis = {} /\ daily_change = {}
    /\ metrics = <<>> /\ comparison = {}
    /\ outcome = "init"
    /\ divisions = {}
    /\ notices = {}

LoadNext ==
    \/ \E t \in Todays, p \in MatchedOptions : WestinRender(t, p)
    \/ \E t \in Todays, p \in MatchedOptions : CanopyRender(t, p)
    \/ \E t \in Todays, p \in CamdenOptions : CamdenRender(t, p)
    \/ \E t \in Todays, p \in RaceOptions : RaceRender(t, p)
    \/ Q1Render
    \/ ClearCache
    \/ SourceFails
    \/ SourceRecovers

LoadSpec == LoadInit /\ [][LoadNext]_vars

(***************************************************************************)
(* Properties.                                                             *)
(***************************************************************************)
SingleHotelApps == {"westin", "canopy", "camden"}
MatchedApps == {"westin", "canopy"}

\* the (current, comparison, record) triples of every KPI record of the state
KpiRecords ==
    {[current |-> k.current_total, comparison |-> k.compare_total, rec |-> k] : k \in kpis}
        \cup {[current |-> metrics[h].current_total,
               comparison |-> metrics[h].previous_total,
               rec |-> metrics[h]] : h \in DOMAIN metrics}

\* the rows of the series inside the current and the comparison range
CurrentRows == Between(data, cur.start, cur.end)
CompareRows == Between(data, cmp.start, cmp.end)

\* C1: in every KPI routine percent_change is (current - comparison) /
\* comparison * 100 when the comparison total is not 0, and exactly 0 when it is
C1_PercentChange ==
    \A x \in KpiRecords :
        IF x.comparison.n = 0 THEN x.rec.percent_change = Num(0)
        ELSE /\ IsFin(x.rec.percent_change)
             /\ x.rec.percent_change.n * x.comparison.n
                    = (x.current.n - x.comparison.n) * 100 * x.rec.percent_change.d

C1_Witness ==
    /\ app = "westin"
    /\ \E k \in kpis : /\ k.compare_total = Num(20) /\ k.current_total = Num(18)
                       /\ k.percent_change = Num(-10)

NumericFields ==
    {"current_total", "compare_total", "percent_change", "current_daily_avg",
     "compare_daily_avg", "co2_saved", "kwh_saved", "match_percentage", "guest_usage",
     "progress_percentage", "remaining_kwh"}

\* C2: with a comparison total of 0 the KPI computation yields percent_change,
\* kwh_saved and co2_saved of 0, raises nothing, and no field of the record is
\* nan or infinite
C2_ZeroComparisonSafe ==
    /\ app \in SingleHotelApps => outcome # "error"
    /\ \A k \in kpis :
         k.compare_total = Num(0) =>
            /\ k.percent_change = Num(0)
            /\ k.kwh_saved = Num(0)
            /\ k.co2_saved = Num(0)
            /\ \A f \in NumericFields \cap DOMAIN k : IsFin(k[f])

\* C3: no division of a run is evaluated with a zero denominator
C3_DivisionsGuarded == \A x \in divisions : ~Eq(x.den, Num(0))

\* C4: kwh_saved is comparison - current (> 0) when the current total is below
\* the comparison total and 0 otherwise; co2_saved, where the routine returns
\* it, is kwh_saved * ELECTRICITY_FACTOR and never negative
C4_SavingsSign ==
    /\ \A x \in KpiRecords :
         IF x.current.n < x.comparison.n
         THEN /\ x.rec.kwh_saved = Num(x.comparison.n - x.current.n)
              /\ x.rec.kwh_saved.n > 0
         ELSE x.rec.kwh_saved = Num(0)
    /\ \A k \in kpis :
         /\ IsFin(k.co2_saved) /\ k.co2_saved.n >= 0
         /\ Div(k.co2_saved, ELECTRICITY_FACTOR(app)) = k.kwh_saved

C4_Witness ==
    /\ app = "camden"
    /\ \E k \in kpis : /\ k.compare_total = Num(20) /\ k.current_total = Num(18)
                       /\ k.kwh_saved = Num(2) /\ k.co2_saved.n > 0

\* the records that carry a progress_percentage
ProgressRecords == {x \in KpiRecords : "progress_percentage" \in DOMAIN x.rec}

\* C5: progress_percentage is 100 for every reduction of 10% or more of a
\* positive comparison total, and always lies in [0, 100]
C5_ProgressClamp ==
    \A x \in ProgressRecords :
        /\ Ge(x.rec.progress_percentage, Num(0))
        /\ Le(x.rec.progress_percentage, Num(100))
        /\ (x.comparison.n > 0 /\ x.current.n * 10 <= x.comparison.n * 9)
              => x.rec.progress_percentage = Num(100)

C5_Witness ==
    /\ app = "canopy"
    /\ \E k \in kpis : /\ k.compare_total = Num(40) /\ k.current_total = Num(18)
                       /\ k.progress_percentage = Num(100)

\* C6: the Westin / Canopy progress and the race dashboard progress are the
\* same function of the totals
C6_ProgressAgree ==
    /\ \A k \in kpis :
         "progress_percentage" \in DOMAIN k =>
            k.progress_percentage
                = race_progress(k.current_total, k.compare_total,
                                Mul(k.compare_total, target_fraction))
    /\ \A h \in DOMAIN metrics :
         metrics[h].progress_percentage
             = matched_progress(metrics[h].current_total, metrics[h].previous_total,
                                Mul(metrics[h].previous_total, target_fraction))

C6_Witness ==
    /\ app = "race"
    /\ \E h \in DOMAIN metrics : metrics[h].progress_percentage = Num(100)
    /\ \E h \in DOMAIN metrics : metrics[h].progress_percentage = Num(50)

\* C7: the key-based matchers return as many current rows as comparison rows,
\* and matched_day_count is that number
C7_MatchCountConsistent ==
    \A m \in matched :
        IF app \in MatchedApps
        THEN /\ m.matched_day_count = Len(m.current_data)
             /\ m.matched_day_count = Len(m.compare_data)
        ELSE Len(m.current_dates) = Len(m.previous_dates)

SameMonthDay(a, b) == MonthOf(a) = MonthOf(b) /\ DayOf(a) = DayOf(b)

\* C8: Canopy keeps a row of one range exactly if some row of the other range
\* has its month and day of month (so a 29 February row is never kept against
\* a non-leap year); the dates the race dashboard returns pair up the same way
C8_ExactMonthDay ==
    /\ app = "canopy" =>
         \A m \in matched :
            /\ m.current_data =
                 SelectSeq(CurrentRows,
                           LAMBDA r : \E i \in DOMAIN CompareRows :
                                          SameMonthDay(r.Date, CompareRows[i].Date))
            /\ m.compare_data =
                 SelectSeq(CompareRows,
                           LAMBDA r : \E i \in DOMAIN CurrentRows :
                                          SameMonthDay(r.Date, CurrentRows[i].Date))
            /\ \A i \in DOMAIN m.current_data :
                 (MonthOf(m.current_data[i].Date) = 2 /\ DayOf(m.current_data[i].Date) = 29)
                    => IsLeap(YearOf(cmp.end))
    /\ app = "race" =>
         \A m \in matched :
            /\ \A c \in Range_(m.current_dates) :
                 \E q \in Range_(m.previous_dates) : SameMonthDay(c, q)
            /\ \A q \in Range_(m.previous_dates) :
                 \E c \in Range_(m.current_dates) : SameMonthDay(c, q)

C8_Witness ==
    /\ app = "canopy"
    /\ \E m \in matched :
         /\ Len(m.current_data) = 1 /\ Len(m.compare_data) = 1
         /\ DayOf(m.current_data[1].Date) = 1
         /\ \E i \in DOMAIN CurrentRows :
               MonthOf(CurrentRows[i].Date) = 2 /\ DayOf(CurrentRows[i].Date) = 29

SameWeekdayOfMonth(a, b) ==
    /\ MonthOf(a) = MonthOf(b)
    /\ (DayOf(a) - 1) \div 7 = (DayOf(b) - 1) \div 7
    /\ DayOfWeek(a) = DayOfWeek(b)

\* C9: Westin keeps a row of one range exactly if some row of the other range
\* has its month, its week of the month and its day of the week
C9_WeekdayWeekOfMonth ==
    app = "westin" =>
        \A m \in matched :
            /\ m.current_data =
                 SelectSeq(CurrentRows,
                           LAMBDA r : \E i \in DOMAIN CompareRows :
                                          SameWeekdayOfMonth(r.Date, CompareRows[i].Date))
            /\ m.compare_data =
                 SelectSeq(CompareRows,
                           LAMBDA r : \E i \in DOMAIN CurrentRows :
                                          SameWeekdayOfMonth(r.Date, CurrentRows[i].Date))

C9_Witness ==
    /\ app = "westin"
    /\ \E m \in matched :
         /\ Len(m.current_data) = 1 /\ Len(m.compare_data) = 1
         /\ DayOf(m.current_data[1].Date) = 6
         /\ \E i \in DOMAIN CurrentRows :
               /\ DayOf(CurrentRows[i].Date) = 13
               /\ DayOfWeek(CurrentRows[i].Date) = DayOfWeek(m.current_data[1].Date)

\* C10: Camden counts a day of the current range only if the series has a row
\* for the day one year earlier, and a comparison day only if its current day
\* has a row
C10_OnlyPairedDaysCounted ==
    app = "camden" =>
        \A k \in kpis :
            /\ k.current_total =
                 Total(SelectSeq(CurrentRows,
                                 LAMBDA r : \E i \in DOMAIN CompareRows :
                                     CompareRows[i].Date = MinusYearOffset(r.Date)))
            /\ k.compare_total =
                 Total(SelectSeq(CompareRows,
                                 LAMBDA r : \E i \in DOMAIN CurrentRows :
                                     r.Date = MinusYearOffset(CurrentRows[i].Date)))

\* (b - a).days of two datetimes with a <= b: whole days, a started day not counted
WholeDays(a, b) == OrdOf(b) - OrdOf(a) - (IF TimeOf(b) < TimeOf(a) THEN 1 ELSE 0)

\* C11: get_matching_day_pairs returns expected_day_count = (current_end -
\* current_start).days + 1 and match_percentage = matched_day_count /
\* expected_day_count * 100, and match_percentage lies in [0, 100]
C11_MatchPercentage ==
    app \in MatchedApps =>
        \A m \in matched :
            /\ m.expected_day_count = WholeDays(cur.start, cur.end) + 1
            /\ IsFin(m.match_percentage)
            /\ m.match_percentage.n * m.expected_day_count
                   = m.matched_day_count * 100 * m.match_percentage.d
            /\ Ge(m.match_percentage, Num(0))
            /\ Le(m.match_percentage, Num(100))

C11_Witness ==
    /\ app = "westin" /\ period = "Last 30 Days"
    /\ \E m \in matched :
         /\ m.matched_day_count = 1 /\ m.expected_day_count = 31
         /\ m.match_percentage = Rat(100, 31)

\* the branch that assigned the current range of the last run
BranchTaken ==
    CASE app \in MatchedApps -> matched_branch(period)
      [] app = "camden" -> camden_branch(period)
      [] app = "race" -> race_branch(period)
      [] OTHER -> period

\* C12: no selection is resolved by falling through to an else branch or to a
\* pre-set default range: the range of every run is assigned by a branch that
\* tests for the selected name
C12_NoSilentDefault == outcome # "init" => BranchTaken = period

ChallengeSelected ==
    \/ app = "camden" /\ period = "Earth Day Challenge Period"
    \/ app = "race" /\ period = "Earth Day Challenge"

\* C13: the challenge selection resolves to the window one year earlier, with
\* the projected notice, exactly if today is before the start of the window;
\* otherwise to the window itself, without the notice
C13_ChallengeWindow ==
    (ChallengeSelected /\ cur # NoRange) =>
        IF today < challenge_start(app)
        THEN /\ cur = Range(MinusYearOffset(challenge_start(app)),
                            MinusYearOffset(challenge_end(app)))
             /\ projected_data \in notices
        ELSE /\ cur = Range(challenge_start(app), challenge_end(app))
             /\ projected_data \notin notices

\* a run of a single-hotel dashboard that resolved its ranges
RangesResolved == app \in SingleHotelApps /\ outcome = "shown"

OneYearBefore(a, b) == SameMonthDay(a, b) /\ YearOf(a) = YearOf(b) - 1

\* C14: both ends of the comparison range have the month and the day of the
\* month of the current range's ends, and the year before
C14_OneCalendarYearBack ==
    RangesResolved =>
        /\ OneYearBefore(cmp.start, cur.start)
        /\ OneYearBefore(cmp.end, cur.end)

\* C15: the comparison range spans as many days as the current range
C15_SameDayCount ==
    RangesResolved => WholeDays(cmp.start, cmp.end) = WholeDays(cur.start, cur.end)

\* C16: Westin's and Camden's get_comparative_period and Canopy's return the
\* same comparison range for the current range of every run
C16_SharedComparativePeriod ==
    RangesResolved =>
        /\ ~canopy_comparative_raises(cur.start, cur.end)
        /\ get_comparative_period(cur.start, cur.end)
               = canopy_get_comparative_period(cur.start, cur.end)

\* C17: every run resolves a current range with start <= end, and the
\* comparison range is computed without an exception and has start <= end
C17_RangesOrdered ==
    /\ outcome # "error"
    /\ cur # NoRange => cur.start <= cur.end
    /\ cmp # NoRange => cmp.start <= cmp.end

\* C18: "Last n Days" resolves to [today - n days, today], and the rows of the
\* current period are the rows dated on one of the days today - n .. today
C18_LastNDaysClosed ==
    (RangesResolved /\ period \in {"Last 7 Days", "Last 30 Days"}) =>
        LET n == IF period = "Last 7 Days" THEN 7 ELSE 30
        IN  /\ cur = Range(MinusDays(today, n), today)
            /\ CurrentRows =
                 SelectSeq(data, LAMBDA r : /\ OrdOf(r.Date) >= OrdOf(today) - n
                                            /\ OrdOf(r.Date) <= OrdOf(today))

\* C19: trees_equivalent is floor(co2_saved / 22) of the co2_saved of the same
\* record, 0 when that co2_saved is 0, and never negative
C19_TreesFromReturnedCo2 ==
    app \in MatchedApps =>
        \A k \in kpis :
            /\ k.trees_equivalent = (k.co2_saved.n \div k.co2_saved.d) \div co2_per_tree
            /\ k.trees_equivalent >= 0
            /\ k.co2_saved = Num(0) => k.trees_equivalent = 0

\* C20: when the series has no row in the comparison range, matched_day_count,
\* match_percentage and percent_change are 0 and the run carries a no-data
\* notice; the race dashboard gives the notice when it has no metrics
C20_MissingDaysFlagged ==
    /\ (app \in MatchedApps /\ outcome = "shown" /\ CompareRows = <<>>) =>
          /\ \A m \in matched : m.matched_day_count = 0 /\ m.match_percentage = Num(0)
          /\ \A k \in kpis : k.percent_change = Num(0)
          /\ notices # {}
    /\ (app = "race" /\ outcome # "init" /\ DOMAIN metrics = {}) =>
          no_data_available \in notices

\* the series and the current range of the ten-day April scenario
TenDaySeries == DailyRows(2024, 10, 100) \o DailyRows(2025, 10, 90)
TenDayRange == Range(DateTime(2025, 4, 1), DateTime(2025, 4, 10))

\* C21: on one row per day of 100 kWh on 2024-04-01..10 and of 90 kWh on
\* 2025-04-01..10 with the current range 2025-04-01..10, the Canopy pipeline
\* compares against 2024-04-01..10, matches 10 days, totals 900 against 1000,
\* reports -10 percent, 100 kWh and 100 * ELECTRICITY_FACTOR saved, progress 100
C21_CanopyScenario ==
    (app = "canopy" /\ outcome = "shown" /\ data = TenDaySeries /\ cur = TenDayRange)
        => /\ cmp = Range(DateTime(2024, 4, 1), DateTime(2024, 4, 10))
           /\ kpis # {}
           /\ \A k \in kpis :
                /\ k.matched_day_count = 10
                /\ Eq(k.current_total, Num(900))
                /\ Eq(k.compare_total, Num(1000))
                /\ Eq(k.percent_change, Num(0 - 10))
                /\ Eq(k.kwh_saved, Num(100))
                /\ Eq(k.co2_saved, Mul(Num(100), ELECTRICITY_FACTOR("canopy")))
                /\ Eq(k.progress_percentage, Num(100))

C21_Witness ==
    /\ app = "canopy" /\ outcome = "shown"
    /\ data = TenDaySeries /\ cur = TenDayRange
    /\ \E k \in kpis : k.matched_day_count = 10

\* the dashboards whose load_data is decorated with st.cache_data
CachedApps == {"westin", "canopy", "camden", "race"}

\* C22: over any sequence of renders without an explicit clearing of the cache
\* the data source is read at most once; every later render reuses the cached
\* series
C22_LoadOnce ==
    app \in CachedApps => reads <= 1

\* the messages of a fallback load
FallbackNotices == {load_error}

\* C23: a load that cannot read the source returns a non-empty simulated
\* series, never an empty one, and every render that shows metrics of a
\* simulated series carries the message of the fallback
C23_SimulatedFallback ==
    /\ served # "failed"
    /\ served = "simulated" => Len(data) > 0
    /\ (served = "simulated" /\ outcome = "shown") => notices \cap FallbackNotices # {}

\* C24: a series loaded from the source has at most one row per hotel and
\* date (per month in CIE / CIV)
C24_OneRowPerDay ==
    served = "source" =>
        \A i \in DOMAIN data : \A j \in DOMAIN data :
            i < j =>
                IF app \in Q1Apps
                THEN <<data[i].Year, data[i].MonthNum>> # <<data[j].Year, data[j].MonthNum>>
                ELSE IF app = "race"
                THEN <<data[i].Hotel, data[i].Date>> # <<data[j].Hotel, data[j].Date>>
                ELSE data[i].Date # data[j].Date

\* the dashboards whose cache nothing in the code empties
MemoisedApps == {"westin", "camden", "race"}

\* C28: a render that finds the source readable gets the series of the
\* source: the simulated series of an earlier failed load is not served from
\* the cache (a step that leaves the source alone and the cache filled is a run
\* of main())
C28_NoStaleFallback ==
    [][(app \in MemoisedApps /\ source.readable /\ source' = source /\ cache' # {})
           => served' = "source"]_vars

\* every hotel has a row of the race data on date d
HasAllHotels(d) ==
    \A h \in Hotels : \E i \in DOMAIN data : data[i].Hotel = h /\ data[i].Date = d

\* the dates of the year before d's with d's month and day on which every hotel has a row
Counterparts(d) ==
    {e \in {data[i].Date : i \in DOMAIN data} :
        YearOf(e) = YearOf(d) - 1 /\ SameMonthDay(e, d) /\ HasAllHotels(e)}

\* C25: find_matching_days puts a date of the current year inside the range
\* into current_dates exactly if every hotel has a row on it and on the date of
\* the previous year with its month and day; previous_dates are exactly those
\* counterparts; the two lists are equally long and pair up by month and day
C25_MatchingDays ==
    app = "race" =>
        \A m \in matched :
            LET current == Range_(m.current_dates)
                previous == Range_(m.previous_dates)
            IN  /\ \A d \in {data[i].Date : i \in DOMAIN data} \cup current :
                      d \in current <=>
                          /\ YearOf(d) = YearOf(today)
                          /\ cur.start <= d /\ d <= cur.end
                          /\ HasAllHotels(d)
                          /\ Counterparts(d) # {}
                /\ previous = UNION {Counterparts(d) : d \in current}
                /\ Len(m.current_dates) = Len(m.previous_dates)
                /\ Cardinality(current) = Len(m.current_dates)
                /\ \A i \in DOMAIN m.current_dates :
                      /\ i \in DOMAIN m.previous_dates
                      /\ SameMonthDay(m.current_dates[i], m.previous_dates[i])

\* a matched day, with a complete day of the range left out for want of a counterpart
C25_Witness ==
    /\ app = "race"
    /\ \E m \in matched :
          /\ Len(m.current_dates) > 0
          /\ \E i \in DOMAIN data :
                /\ HasAllHotels(data[i].Date)
                /\ YearOf(data[i].Date) = YearOf(today)
                /\ cur.start <= data[i].Date /\ data[i].Date <= cur.end
                /\ data[i].Date \notin Range_(m.current_dates)

OneRowPerDayOf(range) ==
    \A o \in OrdOf(range.start)..OrdOf(range.end) :
        Cardinality({i \in DOMAIN data : OrdOf(data[i].Date) = o}) = 1

\* C27: with exactly one row for every calendar day of the current range and
\* of the comparison range, Westin and Canopy match every expected day:
\* matched_day_count = expected_day_count and match_percentage = 100
C27_CompleteDataFullMatch ==
    (app \in MatchedApps /\ outcome = "shown"
         /\ OneRowPerDayOf(cur) /\ OneRowPerDayOf(cmp))
        => \A k \in kpis :
              /\ k.matched_day_count = k.expected_day_count
              /\ Eq(k.match_percentage, Num(100))

\* the January-March months of a year that the table holds
Q1MonthsOf(year) ==
    {data[i].MonthNum : i \in {j \in DOMAIN data :
                                  data[j].Year = year /\ data[j].MonthNum \in q1_months}}

\* C29: a result of calculate_q1_comparison compares a year with the year
\* before it, and both totals are sums over the same January-March months
C29_Q1SameMonths ==
    app \in Q1Apps =>
        \A c \in comparison :
            /\ c.previous_year = c.current_year - 1
            /\ Q1MonthsOf(c.current_year) = Q1MonthsOf(c.previous_year)

\* the calendar days of a range, as the datetimes of their rows
DaysOf(range) == {o * TicksPerDay : o \in OrdOf(range.start)..OrdOf(range.end)}

\* every hotel has a row on every day of the range and on the day of the same
\* month and day one year earlier
CoveredInBothYears(range) ==
    \A d \in DaysOf(range) :
        /\ HasAllHotels(d)
        /\ ~(MonthOf(d) = 2 /\ DayOf(d) = 29)
        /\ HasAllHotels(DateTime(YearOf(d) - 1, MonthOf(d), DayOf(d)))

\* C30: when every hotel has rows for every day of the resolved range and for
\* the same month-days one year earlier, find_matching_days returns every day
\* of the range and calculate_hotel_metrics returns metrics, also for a range
\* outside today's calendar year
C30_CoveredRangeHasMetrics ==
    (app = "race" /\ outcome # "init" /\ CoveredInBothYears(cur))
        => /\ \A m \in matched : Range_(m.current_dates) = DaysOf(cur)
           /\ DOMAIN metrics # {}

====
